---- MODULE Spec2Model ----
(***************************************************************************)
(* Model of the Salesforce Data Cloud client of                            *)
(* src/salesforce_datacloud_utils.py: the record splitter                  *)
(* (_split_json_list), the two-step token exchange (_authenticate) and the *)
(* request-issuing operations built on them.                               *)
(*                                                                         *)
(* Two specifications:                                                     *)
(*   SpecSplit  _split_json_list as a pure function over bounded inputs;   *)
(*   Spec       one SalesforceDataCloud instance driven by a caller, every *)
(*              HTTP request one step, the clock free to advance between   *)
(*              steps, every response chosen by the remote service.        *)
(***************************************************************************)
EXTENDS Integers, Sequences, FiniteSets, TLC

VARIABLES
    sp_in,          \* _split_json_list: input_json_list
    sp_max,         \* _split_json_list: max_size
    sp_out,         \* _split_json_list: the returned result_lists, or NotRun
    now,            \* time.time() * 1000, milliseconds
    ticks,          \* how many times the clock has advanced
    context,        \* SalesforceDataCloud.context (the dne_* entries)
    pc,             \* position of the running public operation
    op,             \* the public operation the caller invoked
    ret,            \* where _authenticate returns to
    force,          \* _authenticate's force_refresh argument
    log,            \* the HTTP requests sent by the running operation
    resp,           \* the local variable `response`
    result,         \* what the operation gave its caller
    job_id,         \* _bulk_operation's job_id / the job_id argument
    pending,        \* the exception in flight while the finally block runs
    work,           \* what is left to send: chunks, upload parts or jobs
    headers,        \* the bearer token of the local variable `headers`
    started,        \* history: the time the running operation was called
    received,       \* history: the jobs or rows the service returned
    df,             \* query: the data frame being returned
    lastExchange,   \* history: how the latest token exchange ended: "ok",
                    \* "failed" (a status other than 200), "broken" (no
                    \* answer) or "none"
    prevAuth,       \* history: the previous operation, when an _authenticate
    failed,         \* history: the first unexpected answer of the operation
    arg             \* the argument the caller passed

vars == <<sp_in, sp_max, sp_out, now, ticks, context, pc, op, ret, force, log,
          resp, result, job_id, pending, work, headers, started, received, df,
          lastExchange, prevAuth, failed, arg>>

splitVars == <<sp_in, sp_max, sp_out>>

clientVars == <<now, ticks, context, pc, op, ret, force, log, resp, result,
                job_id, pending, work, headers, started, received, df,
                lastExchange, prevAuth, failed, arg>>

\* _split_json_list has not been called yet.
NotRun == [done |-> FALSE, groups |-> <<>>]

(***************************************************************************)
(* Records.  A record is a dict with the one key "a" whose value is the    *)
(* character ch repeated n times: {"a": "ch...ch"}.                        *)
(***************************************************************************)

\* The characters a value is made of: a plain ASCII letter, a double quote
\* and a non-ASCII letter (U+00E9).
Chars == {"x", "\"", "U+00E9"}

\* json.dumps of one character inside a string, then its UTF-8 length:
\* ensure_ascii is on, so U+00E9 becomes the six bytes of its backslash-u escape and a double
\* quote the two bytes \".
EscLen(ch) ==
    CASE ch = "x"      -> 1
      [] ch = "\""     -> 2
      [] ch = "U+00E9" -> 6

\* len('{"a": ""}'): the bytes of the serialized dict around the value.
DictOverhead == 9

\* len(json.dumps(item).encode('utf-8'))
ItemSize(item) == DictOverhead + item.n * EscLen(item.ch)

(***************************************************************************)
(* _split_json_list                                                        *)
(***************************************************************************)

\* The loop state before the first item.
SplitStart == [result_lists |-> <<>>, current_list |-> <<>>, current_size |-> 0]

\* A loop body that tests the size after the item was added.
SplitStepTestAfter(st, item, max_size) ==
    LET grown == [st EXCEPT !.current_list = Append(@, item),
                            !.current_size = @ + ItemSize(item)]
    IN  IF grown.current_size > max_size
        THEN [result_lists |-> Append(st.result_lists, grown.current_list),
              current_list |-> <<>>,
              current_size |-> 0]
        ELSE grown

\* A loop body that loses the item that closes a group.
SplitStepDropping(st, item, max_size) ==
    IF st.current_size + ItemSize(item) > max_size
    THEN [result_lists |-> Append(st.result_lists, st.current_list),
          current_list |-> <<>>,
          current_size |-> 0]
    ELSE [st EXCEPT !.current_list = Append(@, item),
                    !.current_size = @ + ItemSize(item)]

\* One iteration of `for item in input_json_list`.
SplitStep(st, item, max_size) ==
    LET item_size == ItemSize(item)
        flushed == IF st.current_size + item_size > max_size
                   THEN [result_lists |-> Append(st.result_lists, st.current_list),
                         current_list |-> <<>>,
                         current_size |-> 0]
                   ELSE st
    IN  [flushed EXCEPT !.current_list = Append(@, item),
                        !.current_size = @ + item_size]

RECURSIVE SplitLoop(_, _, _, _)
SplitLoop(st, input_json_list, i, max_size) ==
    IF i > Len(input_json_list)
    THEN st
    ELSE SplitLoop(SplitStep(st, input_json_list[i], max_size),
                   input_json_list, i + 1, max_size)

\* _split_json_list(input_json_list, max_size)
SplitJsonList(input_json_list, max_size) ==
    LET st == SplitLoop(SplitStart, input_json_list, 1, max_size)
    IN  IF st.current_list # <<>>
        THEN Append(st.result_lists, st.current_list)
        ELSE st.result_lists

(***************************************************************************)
(* Bounds of the model                                                     *)
(***************************************************************************)

MaxLen == 3         \* SpecSplit: records in an input list
MaxRepeat == 2      \* SpecSplit: characters in a record's value
MaxSize == 32       \* SpecSplit: the largest max_size tried
MaxTicks == 1       \* Spec: times the clock advances
MaxTokens == 2      \* Spec: access tokens the login service issues
MaxJobs == 2        \* Spec: job ids the service knows
MaxParts == 2       \* Spec: file parts one bulk operation uploads
MaxData == 2        \* Spec: records in one streaming_upsert call
MaxPages == 2       \* Spec: pages of one query result

\* The clock advances by 114.5 or 114.75 minutes at a time: the elapsed
\* times on either side of the freshness test.
TickSteps == {6870000, 6885000}

\* The time at which the instance is constructed: later than one freshness
\* window after the epoch, as any real clock is.
StartTime == 10000000

(***************************************************************************)
(* Program constants                                                       *)
(***************************************************************************)

STREAMING_API_MAX_PAYLOAD_SIZE == 200000
FreshMinutes == 115
MsPerMinute == 60000

\* A context key that was never assigned (reading it raises KeyError).
Unset == 0
\* job_id = None
NoJob == 0

NoResponse == [kind |-> "none"]
NoError == [type |-> "none"]
NoResult == [kind |-> "none"]
NoFailure == [set |-> FALSE]

(***************************************************************************)
(* The remote service                                                      *)
(***************************************************************************)

Statuses == {200, 201, 202, 500}
Bodies == {"body1", "body2"}
JobIds == 1 .. MaxJobs

\* requests raised instead of returning a response (connection lost,
\* timeout while reading the answer): the request was sent.
TransportError == [kind |-> "exc"]

\* The responses to a request whose answer carries `payloads` when its
\* status is `good`, and nothing otherwise.
Responses(good, payloads) ==
    { [kind |-> "http", status |-> s, text |-> b, payload |-> p] :
        s \in Statuses \ {good}, b \in Bodies, p \in {<<>>} }
    \cup
    { [kind |-> "http", status |-> good, text |-> b, payload |-> p] :
        b \in Bodies, p \in payloads }
    \cup {TransportError}

RECURSIVE DistinctSeqs(_, _)
\* The sequences of at most n distinct elements of S.
DistinctSeqs(S, n) ==
    IF n = 0 THEN {<<>>}
    ELSE {<<>>} \cup { <<x>> \o t : x \in S, t \in DistinctSeqs(S, n - 1) }

\* The listings a GET /ingest/jobs can return: distinct jobs, in any order.
Listings == { l \in DistinctSeqs(JobIds, MaxJobs) :
                \A i, j \in 1 .. Len(l) : i # j => l[i] # l[j] }

(***************************************************************************)
(* Time                                                                    *)
(***************************************************************************)

\* Python's round(n / d) for n >= 0, d > 0: to the nearest integer, a tie
\* to the even one.
PyRound(n, d) ==
    LET q == n \div d
        r == n % d
    IN  IF 2 * r < d THEN q
        ELSE IF 2 * r > d THEN q + 1
        ELSE IF q % 2 = 0 THEN q ELSE q + 1

\* round((time.time() * 1000 - dne_cdpTokenRefreshTime) / 60000)
cdpTokenAge(t, refreshTime) == PyRound(t - refreshTime, MsPerMinute)

\* A freshness test that never finds the token valid.
TokenValidNever(t, refreshTime, force_refresh) == FALSE

\* A freshness test that also asks for the latest exchange to have succeeded.
TokenValidAfterSuccess(t, refreshTime, force_refresh) ==
    /\ cdpTokenAge(t, refreshTime) < FreshMinutes
    /\ ~force_refresh
    /\ lastExchange = "ok"

\* cdpTokenAge < 115 and not force_refresh
TokenValid(t, refreshTime, force_refresh) ==
    cdpTokenAge(t, refreshTime) < FreshMinutes /\ ~force_refresh

(***************************************************************************)
(* Requests, errors and the flow of control                                *)
(***************************************************************************)

LoginHost == <<"login.salesforce.com">>
InstanceHost == <<"instance", context.dne_cdpInstanceUrl>>
OffcoreHost == <<"offcore", context.dne_cdpOffcoreUrl>>

Url(host, site, id, params) ==
    [host |-> host, site |-> site, id |-> id, params |-> params]

Req(method, url, bearer, body) ==
    [method |-> method, url |-> url, bearer |-> bearer, body |-> body]

\* SalesforceDataCloudError(operation, url, response.status_code, response.text)
SDCError(operation, url, r) ==
    [type |-> "SalesforceDataCloudError", operation |-> operation,
     url |-> url, status |-> r.status, content |-> r.text]

\* self.context['dne_cdpOffcoreToken'] on a context that has no such key
KeyError == [type |-> "KeyError"]
\* what requests raises when no response arrives
RequestException == [type |-> "RequestException"]
\* df.append on a pandas.DataFrame that has no such method
AttributeError == [type |-> "AttributeError"]

BulkOps == {"bulk_upsert", "bulk_delete"}

\* The try block of _bulk_operation is running: an exception raised now
\* reaches the finally block with job_id set.
InTry == op \in BulkOps /\ job_id # NoJob /\ pending = NoError

\* The state _close_job is asked for: abort_job passes "Aborted".
CloseState ==
    IF op \in BulkOps /\ pending = NoError THEN "UploadComplete" ELSE "Aborted"

HasToken == context.dne_cdpOffcoreToken # Unset

Sent(request) == log' = Append(log, request)

\* History: the first answer of the running operation whose status is not
\* the one its call expects (any 2xx where the code names none).
Noted(operation, url, r, good) ==
    failed' = IF ~failed.set /\ r.kind = "http"
                 /\ (IF good = {} THEN r.status \notin {200, 201, 202}
                                  ELSE r.status \notin good)
              THEN [set |-> TRUE, operation |-> operation, url |-> url,
                    status |-> r.status, text |-> r.text]
              ELSE failed

Goto(p) == pc' = p /\ UNCHANGED <<ret, force, pending, result>>

\* self._authenticate(), to continue at r
CallAuth(r) ==
    pc' = "auth" /\ ret' = r /\ force' = FALSE /\ UNCHANGED <<pending, result>>

Return(v) ==
    /\ pc' = "done"
    /\ result' = [kind |-> "return", value |-> v]
    /\ UNCHANGED <<ret, force, pending>>

\* An exception e leaves the current function.  Inside the try block of
\* _bulk_operation the finally block runs first and calls abort_job; an
\* exception raised there replaces the one in flight.
Raise(e) ==
    IF InTry
    THEN /\ pending' = e
         /\ pc' = "auth" /\ ret' = "close_patch" /\ force' = FALSE
         /\ UNCHANGED result
    ELSE /\ pc' = "done"
         /\ result' = [kind |-> "raise", error |-> e]
         /\ UNCHANGED <<ret, force, pending>>

\* Where _authenticate continues when it returns.
AuthReturns ==
    IF ret = "done" THEN Return(NoResponse) ELSE Goto(ret)

(***************************************************************************)
(* Initial state: a constructed instance, no operation running             *)
(***************************************************************************)

ClientInit ==
    /\ now = StartTime
    /\ ticks = 0
    /\ context = [dne_cdpTokenRefreshTime |-> 0,
                  dne_cdpAuthToken |-> Unset,
                  dne_cdpInstanceUrl |-> Unset,
                  dne_cdpOffcoreToken |-> Unset,
                  dne_cdpOffcoreUrl |-> Unset]
    /\ pc = "idle"
    /\ op = "none"
    /\ ret = "done"
    /\ force = FALSE
    /\ log = <<>>
    /\ resp = NoResponse
    /\ result = NoResult
    /\ job_id = NoJob
    /\ pending = NoError
    /\ work = <<>>
    /\ headers = Unset
    /\ started = 0
    /\ received = <<>>
    /\ df = <<>>
    /\ lastExchange = "none"
    /\ prevAuth = [set |-> FALSE, at |-> 0]
    /\ failed = NoFailure
    /\ arg = <<>>

SplitIdle == sp_in = <<>> /\ sp_max = 0 /\ sp_out = NotRun

Init == ClientInit /\ SplitIdle

(***************************************************************************)
(* The clock                                                               *)
(***************************************************************************)

\* Time passes between operations and while a data request is under way;
\* _authenticate and the return to the caller take none.
Tick ==
    /\ ticks < MaxTicks
    /\ pc \notin {"auth", "s2s", "cdp", "done"}
    /\ \E d \in TickSteps : now' = now + d
    /\ ticks' = ticks + 1
    /\ UNCHANGED <<context, pc, op, ret, force, log, resp, result, job_id,
                   pending, work, headers, started, received, df,
                   lastExchange, prevAuth, arg, failed,
                   splitVars>>

(***************************************************************************)
(* _authenticate                                                           *)
(***************************************************************************)

\* Lines 77-85: the age test and the optimistic timestamp.
Authenticate ==
    /\ pc = "auth"
    /\ IF TokenValid(now, context.dne_cdpTokenRefreshTime, force)
       THEN /\ AuthReturns
            /\ UNCHANGED context
       ELSE /\ context' = [context EXCEPT !.dne_cdpTokenRefreshTime = now]
            /\ Goto("s2s")
    /\ UNCHANGED <<now, ticks, op, log, resp, job_id, work, headers, started,
                   received, df, lastExchange, prevAuth, arg, failed,
                   splitVars>>

\* The tokens the login service can still issue.
NextTokens ==
    IF context.dne_cdpAuthToken < MaxTokens
    THEN {context.dne_cdpAuthToken + 1} ELSE {}

\* Lines 106-128: the S2S access token request.
AuthS2S ==
    /\ pc = "s2s"
    /\ LET url == Url(LoginHost, "/services/oauth2/token", NoJob, "")
       IN  /\ Sent(Req("POST", url, Unset, "assertion"))
           /\ \E r \in Responses(200, NextTokens) :
                /\ Noted("Get S2S Access Token", url, r, {200})
                /\ IF r.kind = "exc"
                   THEN /\ Raise(RequestException)
                        /\ lastExchange' = "broken"
                        /\ UNCHANGED context
                   ELSE IF r.status # 200
                   THEN /\ Raise(SDCError("Get S2S Access Token", url, r))
                        /\ lastExchange' = "failed"
                        /\ UNCHANGED context
                   ELSE /\ context' = [context EXCEPT
                                         !.dne_cdpAuthToken = r.payload,
                                         !.dne_cdpInstanceUrl = r.payload]
                        /\ Goto("cdp")
                        /\ UNCHANGED lastExchange
    /\ UNCHANGED <<now, ticks, op, resp, job_id, work, headers, started,
                   received, df, prevAuth, arg, splitVars>>

\* Lines 130-155: the platform token exchange request.
AuthCdp ==
    /\ pc = "cdp"
    /\ LET url == Url(InstanceHost, "/services/a360/token", NoJob, "")
       IN  /\ Sent(Req("POST", url, Unset, context.dne_cdpAuthToken))
           /\ \E r \in Responses(200, {context.dne_cdpAuthToken}) :
                /\ Noted("Data Cloud Token Exchange", url, r, {200})
                /\ IF r.kind = "exc"
                   THEN /\ Raise(RequestException)
                        /\ lastExchange' = "broken"
                        /\ UNCHANGED context
                   ELSE IF r.status # 200
                   THEN /\ Raise(SDCError("Data Cloud Token Exchange", url, r))
                        /\ lastExchange' = "failed"
                        /\ UNCHANGED context
                   ELSE /\ context' = [context EXCEPT
                                         !.dne_cdpOffcoreToken = r.payload,
                                         !.dne_cdpOffcoreUrl = r.payload]
                        /\ AuthReturns
                        /\ lastExchange' = "ok"
    /\ UNCHANGED <<now, ticks, op, resp, job_id, work, headers, started,
                   received, df, prevAuth, arg, splitVars>>

(***************************************************************************)
(* The caller                                                              *)
(***************************************************************************)

\* The caller invokes operation o, which starts by calling _authenticate.
Begin(o, r, f, a) ==
    /\ pc = "idle"
    /\ op' = o
    /\ pc' = "auth"
    /\ ret' = r
    /\ force' = f
    /\ arg' = a
    /\ started' = now
    /\ UNCHANGED <<now, ticks, context, log, resp, result, job_id, pending,
                   work, headers, received, df, lastExchange, prevAuth,
                   failed, splitVars>>

\* The inputs the caller passes.
StreamRecords == { [ch |-> "x", n |-> 1],
                   [ch |-> "x", n |-> 100000],
                   [ch |-> "U+00E9", n |-> 33332] }
RECURSIVE SeqsUpTo(_, _)
SeqsUpTo(S, n) ==
    IF n = 0 THEN {<<>>}
    ELSE {<<>>} \cup { <<x>> \o t : x \in S, t \in SeqsUpTo(S, n - 1) }
StateFilters == {"", "Open,UploadComplete,InProgress"}

CallAuthenticate == \E f \in BOOLEAN : Begin("authenticate", "done", f, <<>>)
CallStreamingUpsert ==
    \E data \in SeqsUpTo(StreamRecords, MaxData) :
        Begin("streaming_upsert", "su_start", FALSE, data)
CallBulkUpsert ==
    \E parts \in 0 .. MaxParts : Begin("bulk_upsert", "create", FALSE, parts)
CallBulkDelete ==
    \E parts \in 0 .. MaxParts : Begin("bulk_delete", "create", FALSE, parts)
CallListJobs ==
    \E state \in StateFilters : Begin("list_jobs", "list_get", FALSE, state)
CallJobInfo == \E j \in JobIds : Begin("job_info", "info_get", FALSE, j)
CallAbortJob == \E j \in JobIds : Begin("abort_job", "close_patch", FALSE, j)
CallAbortAllJobs == Begin("abort_all_jobs", "aaj_list", FALSE, <<>>)
CallQuery == Begin("query", "query_post", FALSE, "sql")

\* The operation has returned or raised; the caller has its result.
Finish ==
    /\ pc = "done"
    /\ pc' = "idle"
    /\ op' = "none"
    /\ ret' = "done"
    /\ force' = FALSE
    /\ log' = <<>>
    /\ resp' = NoResponse
    /\ result' = NoResult
    /\ job_id' = NoJob
    /\ pending' = NoError
    /\ work' = <<>>
    /\ headers' = Unset
    /\ started' = 0
    /\ received' = <<>>
    /\ df' = <<>>
    /\ arg' = <<>>
    /\ failed' = NoFailure
    /\ prevAuth' = IF op = "authenticate" /\ result.kind = "return"
                      /\ Len(log) = 2
                   THEN [set |-> TRUE, at |-> started]
                   ELSE [set |-> FALSE, at |-> 0]
    /\ UNCHANGED <<now, ticks, context, lastExchange, splitVars>>

(***************************************************************************)
(* streaming_upsert                                                        *)
(***************************************************************************)

\* A status test that lets every answer pass.
StreamingFailedNever(r) == FALSE

\* response.status_code != 202
StreamingFailed(r) == r.status # 202

\* Lines 193-198: the headers and the chunks.
StreamingUpsertStart ==
    /\ pc = "su_start"
    /\ IF ~HasToken
       THEN Raise(KeyError) /\ UNCHANGED <<failed, headers, work>>
       ELSE /\ headers' = context.dne_cdpOffcoreToken
            /\ work' = SplitJsonList(arg, STREAMING_API_MAX_PAYLOAD_SIZE)
            /\ Goto("su_post")
    /\ UNCHANGED <<now, ticks, context, op, log, resp, job_id, started,
                   received, df, lastExchange, prevAuth, arg, failed,
                   splitVars>>

\* A loop that calls _authenticate and rebuilds the header before each POST.
StreamingPostRefreshing ==
    /\ pc = "su_post"
    /\ work # <<>>
    /\ IF ~TokenValid(now, context.dne_cdpTokenRefreshTime, FALSE)
       THEN CallAuth("su_post") /\ UNCHANGED <<log, resp, work, failed>>
       ELSE LET url == Url(OffcoreHost, "/api/v1/ingest/sources", NoJob, "")
            IN  /\ Sent(Req("POST", url, context.dne_cdpOffcoreToken,
                            Head(work)))
                /\ \E r \in Responses(202, {<<>>}) :
                     /\ Noted("Streaming UPSERT", url, r, {202})
                     /\ IF r.kind = "exc"
                        THEN Raise(RequestException) /\ UNCHANGED <<resp, work>>
                        ELSE /\ resp' = r
                             /\ IF StreamingFailed(r)
                                THEN /\ Raise(SDCError("Streaming UPSERT",
                                                       url, r))
                                     /\ UNCHANGED work
                                ELSE /\ work' = Tail(work)
                                     /\ Goto("su_post")
    /\ UNCHANGED <<now, ticks, context, op, job_id, headers, started,
                   received, df, lastExchange, prevAuth, arg, splitVars>>

\* Lines 199-212: one POST of the loop.
StreamingPost ==
    /\ pc = "su_post"
    /\ work # <<>>
    /\ LET url == Url(OffcoreHost, "/api/v1/ingest/sources", NoJob, "")
       IN  /\ Sent(Req("POST", url, headers, Head(work)))
           /\ \E r \in Responses(202, {<<>>}) :
                /\ Noted("Streaming UPSERT", url, r, {202})
                /\ IF r.kind = "exc"
                   THEN Raise(RequestException) /\ UNCHANGED <<resp, work>>
                   ELSE /\ resp' = r
                        /\ IF StreamingFailed(r)
                           THEN /\ Raise(SDCError("Streaming UPSERT", url, r))
                                /\ UNCHANGED work
                           ELSE /\ work' = Tail(work)
                                /\ Goto("su_post")
    /\ UNCHANGED <<now, ticks, context, op, job_id, headers, started,
                   received, df, lastExchange, prevAuth, arg, splitVars>>

\* Line 214: return response
StreamingReturn ==
    /\ pc = "su_post"
    /\ work = <<>>
    /\ Return(resp)
    /\ UNCHANGED <<now, ticks, context, op, log, resp, job_id, work, headers,
                   started, received, df, lastExchange, prevAuth, arg,
                   failed,
                   splitVars>>

(***************************************************************************)
(* _bulk_operation (bulk_upsert, bulk_delete), _create_job, _close_job     *)
(***************************************************************************)

\* _create_job, then lines 300-304 of _bulk_operation.
CreateJob ==
    /\ pc = "create"
    /\ IF ~HasToken
       THEN Raise(KeyError) /\ UNCHANGED <<failed, log, job_id, headers, work>>
       ELSE LET url == Url(OffcoreHost, "/api/v1/ingest/jobs", NoJob, "")
            IN  /\ Sent(Req("POST", url, context.dne_cdpOffcoreToken, op))
                /\ \E r \in Responses(201, JobIds) :
                     /\ Noted("Create Job", url, r, {201})
                     /\ IF r.kind = "exc"
                        THEN /\ Raise(RequestException)
                             /\ UNCHANGED <<job_id, headers, work>>
                        ELSE IF r.status # 201
                        THEN /\ Raise(SDCError("Create Job", url, r))
                             /\ UNCHANGED <<job_id, headers, work>>
                        ELSE /\ job_id' = r.payload
                             /\ headers' = context.dne_cdpOffcoreToken
                             /\ work' = arg
                             /\ Goto("upload")
    /\ UNCHANGED <<now, ticks, context, op, resp, started, received, df,
                   lastExchange, prevAuth, arg, splitVars>>

\* split_callback: the PUT of one file part.
UploadPart ==
    /\ pc = "upload"
    /\ work > 0
    /\ LET url == Url(OffcoreHost, "/api/v1/ingest/jobs/batches", job_id, "")
       IN  /\ Sent(Req("PUT", url, headers, "csv"))
           /\ \E r \in Responses(202, {<<>>}) :
                /\ Noted("Upload File", url, r, {202})
                /\ IF r.kind = "exc"
                   THEN Raise(RequestException) /\ UNCHANGED work
                   ELSE IF r.status # 202
                   THEN Raise(SDCError("Upload File", url, r)) /\ UNCHANGED work
                   ELSE work' = work - 1 /\ Goto("upload")
    /\ UNCHANGED <<now, ticks, context, op, resp, job_id, headers, started,
                   received, df, lastExchange, prevAuth, arg, splitVars>>

\* Line 314: every part is uploaded, _close_job(job_id) is called.
UploadsDone ==
    /\ pc = "upload"
    /\ work = 0
    /\ CallAuth("close_patch")
    /\ UNCHANGED <<now, ticks, context, op, log, resp, job_id, work, headers,
                   started, received, df, lastExchange, prevAuth, arg,
                   failed,
                   splitVars>>

\* What the caller of _close_job does with the response it returns.
AfterClose(r) ==
    IF op \in BulkOps /\ pending = NoError
    THEN \* lines 314-320, then bulk_upsert / bulk_delete return nothing
         /\ resp' = r
         /\ job_id' = NoJob
         /\ Return(NoResponse)
         /\ UNCHANGED work
    ELSE IF op \in BulkOps
    THEN \* line 318 returned: the finally block re-raises
         /\ pc' = "done"
         /\ result' = [kind |-> "raise", error |-> pending]
         /\ UNCHANGED <<ret, force, pending, resp, job_id, work>>
    ELSE IF op = "abort_job"
    THEN Return(r) /\ resp' = r /\ UNCHANGED <<job_id, work>>
    ELSE \* abort_all_jobs: the next job of the loop
         /\ work' = Tail(work)
         /\ UNCHANGED resp
         /\ IF Tail(work) = <<>>
            THEN Return(NoResponse) /\ UNCHANGED job_id
            ELSE CallAuth("close_patch") /\ job_id' = Head(Tail(work))

\* _close_job, lines 257-267, after its _authenticate.
ClosePatch ==
    /\ pc = "close_patch"
    /\ IF ~HasToken
       THEN Raise(KeyError) /\ UNCHANGED <<failed, log, resp, job_id, work>>
       ELSE LET url == Url(OffcoreHost, "/api/v1/ingest/jobs",
                           IF op = "abort_job" THEN arg ELSE job_id, "")
            IN  /\ Sent(Req("PATCH", url, context.dne_cdpOffcoreToken,
                            CloseState))
                /\ \E r \in Responses(200, {<<>>}) :
                     /\ Noted("", url, r, {})
                     /\ IF r.kind = "exc"
                        THEN /\ Raise(RequestException)
                             /\ UNCHANGED <<resp, job_id, work>>
                        ELSE AfterClose(r)
    /\ UNCHANGED <<now, ticks, context, op, headers, started, received, df,
                   lastExchange, prevAuth, arg, splitVars>>

(***************************************************************************)
(* list_jobs, job_info, abort_all_jobs                                     *)
(***************************************************************************)

\* A reading of the listing that misses its first job.
JobsOfSkipping(r) == IF r.payload = <<>> THEN <<>> ELSE Tail(r.payload)

\* jobs = response.json()["data"]
JobsOf(r) == r.payload

\* abort_all_jobs, line 406: list_jobs(state="Open,UploadComplete")
AbortAllListJobs ==
    /\ pc = "aaj_list"
    /\ arg' = "Open,UploadComplete"
    /\ CallAuth("list_get")
    /\ UNCHANGED <<now, ticks, context, op, log, resp, job_id, work, headers,
                   started, received, df, lastExchange, prevAuth, failed,
                   splitVars>>

\* list_jobs, lines 360-369, and for abort_all_jobs lines 407-408.
ListGet ==
    /\ pc = "list_get"
    /\ IF ~HasToken
       THEN Raise(KeyError) /\ UNCHANGED <<failed, log, resp, job_id, work, received>>
       ELSE LET url == Url(OffcoreHost, "/api/v1/ingest/jobs", NoJob, arg)
            IN  /\ Sent(Req("GET", url, context.dne_cdpOffcoreToken, ""))
                /\ \E r \in Responses(200, Listings) :
                     /\ Noted("", url, r, {})
                     /\ IF r.kind = "exc"
                        THEN /\ Raise(RequestException)
                             /\ UNCHANGED <<resp, job_id, work, received>>
                        ELSE IF op = "list_jobs"
                        THEN /\ resp' = r
                             /\ Return(r)
                             /\ UNCHANGED <<job_id, work, received>>
                        ELSE IF r.status # 200
                        THEN \* an error answer has no "data"
                             /\ resp' = r
                             /\ Raise(KeyError)
                             /\ UNCHANGED <<job_id, work, received>>
                        ELSE /\ resp' = r
                             /\ received' = r.payload
                             /\ work' = JobsOf(r)
                             /\ IF JobsOf(r) = <<>>
                                THEN Return(NoResponse) /\ UNCHANGED job_id
                                ELSE /\ CallAuth("close_patch")
                                     /\ job_id' = Head(JobsOf(r))
    /\ UNCHANGED <<now, ticks, context, op, headers, started, df,
                   lastExchange, prevAuth, arg, splitVars>>

\* job_info, lines 380-389.
InfoGet ==
    /\ pc = "info_get"
    /\ IF ~HasToken
       THEN Raise(KeyError) /\ UNCHANGED <<failed, log, resp>>
       ELSE LET url == Url(OffcoreHost, "/api/v1/ingest/jobs", arg, "")
            IN  /\ Sent(Req("GET", url, context.dne_cdpOffcoreToken, ""))
                /\ \E r \in Responses(200, {<<>>}) :
                     /\ Noted("", url, r, {})
                     /\ IF r.kind = "exc"
                        THEN Raise(RequestException) /\ UNCHANGED resp
                        ELSE resp' = r /\ Return(r)
    /\ UNCHANGED <<now, ticks, context, op, job_id, work, headers, started,
                   received, df, lastExchange, prevAuth, arg, splitVars>>

(***************************************************************************)
(* query                                                                   *)
(***************************************************************************)

\* The k-th page of a result: at most one row, named after the page, and
\* whether it is the last one.
Pages(k) ==
    { [data |-> rows, done |-> d] :
        rows \in {<<>>, <<k>>},
        d \in IF k >= MaxPages THEN {TRUE} ELSE BOOLEAN }

\* Lines 424-441: the POST of the query and the first page.
QueryPost ==
    /\ pc = "query_post"
    /\ IF ~HasToken
       THEN Raise(KeyError) /\ UNCHANGED <<failed, log, resp, work, headers, received, df>>
       ELSE LET url == Url(OffcoreHost, "/api/v2/query", NoJob, "")
            IN  /\ Sent(Req("POST", url, context.dne_cdpOffcoreToken, arg))
                /\ headers' = context.dne_cdpOffcoreToken
                /\ \E r \in Responses(200, Pages(1)) :
                     /\ Noted("Query", url, r, {200})
                     /\ IF r.kind = "exc"
                        THEN /\ Raise(RequestException)
                             /\ UNCHANGED <<resp, work, received, df>>
                        ELSE /\ resp' = r
                             /\ IF r.status # 200
                                THEN /\ Raise(SDCError("Query", url, r))
                                     /\ UNCHANGED <<work, received, df>>
                                ELSE /\ df' = r.payload.data
                                     /\ received' = r.payload.data
                                     /\ work' = 1
                                     /\ IF r.payload.done
                                        THEN Return(r.payload.data)
                                        ELSE Goto("query_next")
    /\ UNCHANGED <<now, ticks, context, op, job_id, started, lastExchange,
                   prevAuth, arg, splitVars>>

\* Lines 442-453: one continuation GET.  Line 453, df.append(df2, ...),
\* does not change df: where pandas has DataFrame.append (before 2.0) it
\* builds a new frame, which the code drops; where it has not (the import
\* is unpinned) the attribute lookup raises AttributeError.
QueryNext ==
    /\ pc = "query_next"
    /\ LET url == Url(OffcoreHost, "/api/v2/query", work + 1, "")
       IN  /\ Sent(Req("GET", url, headers, ""))
           /\ \E r \in Responses(200, Pages(work + 1)) :
                /\ Noted("Query", url, r, {200})
                /\ IF r.kind = "exc"
                   THEN /\ Raise(RequestException)
                        /\ UNCHANGED <<resp, work, received>>
                   ELSE /\ resp' = r
                        /\ IF r.status # 200
                           THEN /\ Raise(SDCError("Query", url, r))
                                /\ UNCHANGED <<work, received>>
                           ELSE /\ received' = received \o r.payload.data
                                /\ work' = work + 1
                                /\ \/ IF r.payload.done
                                      THEN Return(df)
                                      ELSE Goto("query_next")
                                   \/ Raise(AttributeError)
    /\ UNCHANGED <<now, ticks, context, op, job_id, headers, started, df,
                   lastExchange, prevAuth, arg, splitVars>>

(***************************************************************************)
(* Specification of the client                                             *)
(***************************************************************************)

Next ==
    \/ Tick
    \/ CallAuthenticate
    \/ CallStreamingUpsert
    \/ CallBulkUpsert
    \/ CallBulkDelete
    \/ CallListJobs
    \/ CallJobInfo
    \/ CallAbortJob
    \/ CallAbortAllJobs
    \/ CallQuery
    \/ Authenticate
    \/ AuthS2S
    \/ AuthCdp
    \/ StreamingUpsertStart
    \/ StreamingPost
    \/ StreamingReturn
    \/ CreateJob
    \/ UploadPart
    \/ UploadsDone
    \/ ClosePatch
    \/ AbortAllListJobs
    \/ ListGet
    \/ InfoGet
    \/ QueryPost
    \/ QueryNext
    \/ Finish

Spec == Init /\ [][Next]_vars

(***************************************************************************)
(* Specification of _split_json_list alone                                 *)
(***************************************************************************)

SplitRecords == { [ch |-> c, n |-> k] : c \in Chars, k \in 1 .. MaxRepeat }

SplitInit ==
    /\ ClientInit
    /\ sp_in \in SeqsUpTo(SplitRecords, MaxLen)
    /\ sp_max \in 0 .. MaxSize
    /\ sp_out = NotRun

\* result = self._split_json_list(sp_in, sp_max)
SplitCall ==
    /\ sp_out = NotRun
    /\ sp_out' = [done |-> TRUE, groups |-> SplitJsonList(sp_in, sp_max)]
    /\ UNCHANGED <<sp_in, sp_max, clientVars>>

SplitNext == SplitCall

SpecSplit == SplitInit /\ [][SplitNext]_vars

(***************************************************************************)
(* Properties of _split_json_list (checked under SpecSplit)                *)
(***************************************************************************)

RECURSIVE Flatten(_)
\* The groups joined in output order.
Flatten(groups) ==
    IF groups = <<>> THEN <<>> ELSE Head(groups) \o Flatten(Tail(groups))

RECURSIVE GroupSize(_)
\* The summed serialized sizes of the records of a group.
GroupSize(g) ==
    IF g = <<>> THEN 0 ELSE ItemSize(Head(g)) + GroupSize(Tail(g))

\* C1: the groups _split_json_list returns, joined in output order, are the
\* input list: no record dropped, duplicated or moved.
C1_ConcatenationIsInput ==
    sp_out.done => Flatten(sp_out.groups) = sp_in

\* C1 witness: a call that returned several groups, one of them with more
\* than one record.
C1_Witness ==
    /\ sp_out.done
    /\ Len(sp_out.groups) >= 2
    /\ \E i \in 1 .. Len(sp_out.groups) : Len(sp_out.groups[i]) >= 2
    /\ Flatten(sp_out.groups) = sp_in

\* C2: _split_json_list returns no empty group; records that each exceed
\* max_size give as many singleton groups as there are records; an empty
\* input gives no group.
C2_NoEmptyGroup ==
    sp_out.done =>
        /\ \A i \in 1 .. Len(sp_out.groups) : sp_out.groups[i] # <<>>
        /\ (\A k \in 1 .. Len(sp_in) : ItemSize(sp_in[k]) > sp_max)
               => Len(sp_out.groups) = Len(sp_in)
        /\ sp_in = <<>> => sp_out.groups = <<>>

\* C3: a group whose summed size exceeds max_size is one record that alone
\* exceeds max_size; a group of two or more records sums to at most max_size.
C3_OversizeOnlySingleton ==
    sp_out.done =>
        \A i \in 1 .. Len(sp_out.groups) :
            LET g == sp_out.groups[i]
            IN  /\ GroupSize(g) > sp_max
                    => Len(g) = 1 /\ ItemSize(g[1]) > sp_max
                /\ Len(g) >= 2 => GroupSize(g) <= sp_max

\* C3 witness: a result holding an oversized singleton and a group of two
\* records within the limit.
C3_Witness ==
    /\ sp_out.done
    /\ \E i \in 1 .. Len(sp_out.groups) :
          Len(sp_out.groups[i]) = 1 /\ GroupSize(sp_out.groups[i]) > sp_max
    /\ \E i \in 1 .. Len(sp_out.groups) :
          Len(sp_out.groups[i]) >= 2 /\ GroupSize(sp_out.groups[i]) <= sp_max

(***************************************************************************)
(* Properties of the client (checked under Spec)                           *)
(***************************************************************************)

IsTokenRequest(q) ==
    q.url.site \in {"/services/oauth2/token", "/services/a360/token"}
IsDataRequest(q) == ~IsTokenRequest(q)

\* The data requests the running operation has sent, in order.
DataRequests == SelectSeq(log, IsDataRequest)
\* The token requests the running operation has sent, in order.
TokenRequests == SelectSeq(log, IsTokenRequest)

\* The running operation's last step sent a data request.
DataRequestSent ==
    Len(log') = Len(log) + 1 /\ IsDataRequest(log'[Len(log')])

\* A direct _authenticate call has returned to its caller or raised.
AuthenticateDone == pc = "done" /\ op = "authenticate"

\* A forced _authenticate always starts a new exchange: the S2S request,
\* then the platform request when the first one succeeded.
ForcedCallExchanges ==
    AuthenticateDone /\ force =>
        /\ Len(log) \in {1, 2}
        /\ log[1].url.site = "/services/oauth2/token"
        /\ Len(log) = 2 => log[2].url.site = "/services/a360/token"
        /\ result.kind = "return" => Len(log) = 2

\* C4, as amended: an _authenticate call without force_refresh made at most
\* 114.5 minutes after an _authenticate call that performed a successful
\* exchange (the age then rounds to less than 115) sends no request, so the
\* two calls perform one exchange sequence in total; a forced call always
\* starts a new exchange sequence.
C4_FreshCallsExchangeOnce ==
    /\ AuthenticateDone /\ ~force /\ prevAuth.set
         /\ 2 * (started - prevAuth.at) <= (2 * FreshMinutes - 1) * MsPerMinute
         => log = <<>> /\ result.kind = "return"
    /\ ForcedCallExchanges

\* C4 witness: a second unforced call, exactly 114.5 minutes after a call
\* that exchanged, has returned without sending anything.
C4_Witness ==
    /\ AuthenticateDone /\ ~force /\ prevAuth.set
    /\ 2 * (started - prevAuth.at) = (2 * FreshMinutes - 1) * MsPerMinute
    /\ log = <<>>

\* C4 as stated: two unforced calls less than 115 minutes apart, the first
\* having exchanged, perform one exchange sequence in total.
C4_WithinThresholdExchangesOnce ==
    /\ AuthenticateDone /\ ~force /\ prevAuth.set
         /\ started - prevAuth.at < FreshMinutes * MsPerMinute
         => log = <<>> /\ result.kind = "return"
    /\ ForcedCallExchanges

\* C5: after an exchange step answered with a status other than 200 no
\* token state is authoritative: no data request is sent until a full
\* exchange has succeeded again, and the context never holds a newly
\* obtained primary token next to the platform token of an earlier exchange.
C5_NoPartialTokenState ==
    [][ /\ DataRequestSent => lastExchange # "failed"
        /\ (/\ lastExchange' = "failed"
            /\ pc' # "cdp"
            /\ context'.dne_cdpOffcoreToken # Unset)
              => context'.dne_cdpAuthToken = context'.dne_cdpOffcoreToken ]_vars

\* C6: when an HTTP call of a public operation is answered with a status
\* other than the expected one, the operation raises SalesforceDataCloudError
\* with that call's URL, status and body (and its tag where the code names
\* one); the answer is never returned as a normal result.
C6_ErrorPropagation ==
    pc = "done" /\ op # "authenticate" /\ failed.set =>
        /\ result.kind = "raise"
        /\ result.error.type = "SalesforceDataCloudError"
        /\ result.error.url = failed.url
        /\ result.error.status = failed.status
        /\ result.error.content = failed.text
        /\ failed.operation # "" => result.error.operation = failed.operation

\* The groups streaming_upsert iterates over.
StreamingGroups == SplitJsonList(arg, STREAMING_API_MAX_PAYLOAD_SIZE)

\* C7: streaming_upsert POSTs the groups of _split_json_list one by one in
\* order; the first answer that is not 202 ends it with the error tagged
\* "Streaming UPSERT" and nothing more is sent; when every answer is 202 all
\* groups were sent and the last answer is returned.
C7_OnePostPerGroup ==
    op = "streaming_upsert" =>
        LET posts == DataRequests
            groups == StreamingGroups
        IN  /\ Len(posts) <= Len(groups)
            /\ \A i \in 1 .. Len(posts) :
                  posts[i].method = "POST" /\ posts[i].body = groups[i]
            /\ (resp.kind = "http" /\ resp.status # 202) =>
                  /\ pc = "done"
                  /\ result.kind = "raise"
                  /\ result.error.type = "SalesforceDataCloudError"
                  /\ result.error.operation = "Streaming UPSERT"
                  /\ result.error.status = resp.status
                  /\ result.error.content = resp.text
            /\ (pc = "done" /\ result.kind = "return") =>
                  /\ Len(posts) = Len(groups)
                  /\ result.value = resp
                  /\ posts # <<>> => resp.kind = "http" /\ resp.status = 202
                  /\ posts = <<>> => resp = NoResponse

\* C7 witness: a streaming_upsert whose records made two groups has posted
\* both and returned the second answer.
C7_Witness ==
    /\ op = "streaming_upsert" /\ pc = "done" /\ result.kind = "return"
    /\ Len(StreamingGroups) = 2
    /\ Len(DataRequests) = 2
    /\ result.value.kind = "http"

IsTerminalPatch(q) == q.method = "PATCH"

\* C8: in a bulk operation, an upload PUT answered with a status other than
\* 202 ends the uploads, is followed by no close, is followed by one abort
\* request for the job, and its "Upload File" error reaches the caller.
C8_UploadFailureAborts ==
    pc = "done" /\ op \in BulkOps /\ failed.set
        /\ failed.operation = "Upload File" =>
        LET data == DataRequests
            last == data[Len(data)]
        IN  /\ last.method = "PATCH"
            /\ last.body = "Aborted"
            /\ last.url.id = job_id
            /\ data[Len(data) - 1].method = "PUT"
            /\ \A i \in 1 .. Len(data) :
                  data[i].method = "PATCH" => data[i].body = "Aborted"
            /\ result.kind = "raise"
            /\ result.error.type = "SalesforceDataCloudError"
            /\ result.error.operation = "Upload File"
            /\ result.error.status = failed.status

\* C9: a bulk operation sends at most one terminal request (PATCH with
\* state UploadComplete or Aborted) for its job, and none before the job
\* was created.
C9_AtMostOneTerminal ==
    op \in BulkOps =>
        LET terminal == SelectSeq(DataRequests, IsTerminalPatch)
        IN  /\ Len(terminal) <= 1
            /\ \A i \in 1 .. Len(terminal) :
                  /\ terminal[i].url.id # NoJob
                  /\ DataRequests[1].method = "POST"

\* C10: abort_all_jobs sends one listing request with the state filter
\* "Open,UploadComplete" and then abort requests for the jobs of the
\* listing in listing order, one each; when it returns every listed job
\* was sent its abort.
C10_AbortEachListedJobOnce ==
    op = "abort_all_jobs" =>
        LET data == DataRequests
        IN  /\ data # <<>> =>
                 /\ data[1].method = "GET"
                 /\ data[1].url.params = "Open,UploadComplete"
            /\ Len(data) - 1 <= Len(received)
            /\ \A i \in 2 .. Len(data) :
                  /\ data[i].method = "PATCH"
                  /\ data[i].body = "Aborted"
                  /\ data[i].url.id = received[i - 1]
            /\ (pc = "done" /\ result.kind = "return") =>
                  /\ data # <<>>
                  /\ Len(data) - 1 = Len(received)

\* C10 witness: abort_all_jobs returned after a listing of two jobs.
C10_Witness ==
    /\ op = "abort_all_jobs" /\ pc = "done" /\ result.kind = "return"
    /\ Len(received) = 2
    /\ Len(DataRequests) = 3

\* C11: query sends the POST and then one GET per nextBatchId until a page
\* is done, and the table it returns holds the rows of every fetched page,
\* first page and continuation pages, in arrival order: as many rows as
\* the pages had together.
C11_QueryReturnsAllPages ==
    op = "query" =>
        LET data == DataRequests
        IN  /\ \A i \in 1 .. Len(data) :
                  IF i = 1 THEN data[i].method = "POST" /\ data[i].url.id = NoJob
                  ELSE data[i].method = "GET" /\ data[i].url.id = i
            /\ (pc = "done" /\ result.kind = "return") =>
                  /\ resp.kind = "http" /\ resp.payload.done
                  /\ result.value = received
                  /\ Len(result.value) = Len(received)

\* C12: a bulk_upsert or bulk_delete that ends normally gives its caller
\* the response of the job-close request (the PATCH with UploadComplete),
\* not None.
C12_BulkReturnsCloseResponse ==
    (pc = "done" /\ op \in BulkOps /\ result.kind = "return") =>
        /\ DataRequests[Len(DataRequests)].method = "PATCH"
        /\ DataRequests[Len(DataRequests)].body = "UploadComplete"
        /\ resp.kind = "http"
        /\ result.value # NoResponse
        /\ result.value = resp

\* The latest exchange was attempted and did not succeed.
ExchangeFailed == lastExchange \in {"failed", "broken"}

\* The time t is inside the freshness window opened at refreshTime: at most
\* 114.5 minutes later, an age that rounds to less than 115.
WithinWindow(t, refreshTime) ==
    /\ t >= refreshTime
    /\ 2 * (t - refreshTime) <= (2 * FreshMinutes - 1) * MsPerMinute

\* C13: the last-refresh timestamp is recorded before the first exchange
\* request is sent, whatever the exchange's outcome; so after an exchange
\* that failed at either step, an _authenticate call without force_refresh
\* made within the freshness window sends no token request, changes nothing
\* in the context and returns normally to its caller.
C13_OptimisticTimestamp ==
    [][ /\ pc = "s2s" => context.dne_cdpTokenRefreshTime = now
        /\ (/\ pc = "auth" /\ ~force
            /\ ExchangeFailed
            /\ WithinWindow(now, context.dne_cdpTokenRefreshTime))
              => /\ log' = log
                 /\ context' = context
                 /\ lastExchange' = lastExchange
                 /\ IF ret = "done"
                    THEN pc' = "done" /\ result'.kind = "return"
                    ELSE pc' = ret ]_vars

\* C13 witness: the first exchange ever got its primary token and failed at
\* the platform step; 114.5 minutes later an unforced _authenticate call has
\* returned normally without sending anything, the context still without a
\* platform token.
C13_Witness ==
    /\ AuthenticateDone /\ ~force
    /\ result.kind = "return"
    /\ log = <<>>
    /\ lastExchange = "failed"
    /\ context.dne_cdpAuthToken # Unset
    /\ context.dne_cdpOffcoreToken = Unset
    /\ 2 * (started - context.dne_cdpTokenRefreshTime)
           = (2 * FreshMinutes - 1) * MsPerMinute

\* The requests of a batch: the chunk POSTs of streaming_upsert, the job
\* create POST and the upload PUTs of a bulk operation.
IsBatchRequest(q) == IsDataRequest(q) /\ q.method \in {"POST", "PUT"}

BatchRequests == SelectSeq(log, IsBatchRequest)

\* C14: an operation's first data request follows its _authenticate checks:
\* every exchange they made is complete and the request carries the
\* platform token the last one left in the context.  Inside one streaming_upsert
\* or one bulk operation no token request lies between two requests of the
\* batch, and all of them carry the bearer token the header was built with,
\* however old the token has become.
C14_NoRefreshInsideBatch ==
    /\ \A k \in 1 .. Len(log) :
          (IsDataRequest(log[k]) /\ \A i \in 1 .. k - 1 : IsTokenRequest(log[i]))
              => /\ k % 2 = 1
                 /\ log[k].bearer # Unset
                 /\ \A i \in 1 .. k - 1 :
                       log[i].url.site = IF i % 2 = 1
                                         THEN "/services/oauth2/token"
                                         ELSE "/services/a360/token"
                 /\ k > 1 => log[k].bearer = log[k - 1].body
    /\ op \in BulkOps \cup {"streaming_upsert"} =>
          /\ \A i, j, k \in 1 .. Len(log) :
                (i < j /\ j < k /\ IsBatchRequest(log[i]) /\ IsBatchRequest(log[k]))
                    => ~IsTokenRequest(log[j])
          /\ \A i \in 1 .. Len(BatchRequests) :
                /\ BatchRequests[i].bearer = BatchRequests[1].bearer
                /\ headers # Unset => BatchRequests[i].bearer = headers

\* C14 witness: a bulk operation exchanged tokens when it was called, the
\* clock then advanced until the token's age reached the threshold, and the
\* job create and both upload PUTs were sent with that operation's token.
C14_Witness ==
    /\ op \in BulkOps /\ pc = "upload" /\ work = 0
    /\ Len(BatchRequests) = 3
    /\ BatchRequests[3].method = "PUT"
    /\ context.dne_cdpTokenRefreshTime = started
    /\ ~TokenValid(now, context.dne_cdpTokenRefreshTime, FALSE)
    /\ \A i \in 1 .. 3 : BatchRequests[i].bearer = context.dne_cdpOffcoreToken

====
